---- MODULE Spec2Model ----
(***************************************************************************)
(* Model of the SEV shim entry (src/internal/shim-sev/src/main.rs):        *)
(* the bootstrap _start_main generated by entry_point!, switch_shim_stack, *)
(* the panic handler and its frame-pointer walk stack_trace.               *)
(*                                                                         *)
(* Addresses of the frame walk are scaled down: usize ranges over          *)
(* 0 .. AddrSpace-1 and a page holds PageSize bytes.  The stack pointer    *)
(* given to switch_shim_stack keeps its real values.                       *)
(***************************************************************************)
EXTENDS Integers, Naturals, Sequences, FiniteSets, TLC

(* ------------------------------ bounds -------------------------------- *)
\* number of usize values of the scaled address space (usize::MAX + 1)
AddrSpace == 256
\* bytes of one page of the scaled page table
PageSize == 16

(* ------------------------- program constants -------------------------- *)
\* size_of::<usize>() on x86_64
WordSize == 8
\* `for _frame in 0..64`
MaxFrames == 64
\* assert_eq!(sp % 16, 0)
StackAlign == 16
\* hostcall::shim_exit(255)
ExitStatus == 255
\* crate::addr::SHIM_VIRT_OFFSET, scaled into the address space
SHIM_VIRT_OFFSET == 128
\* the value PAYLOAD_VIRT_ADDR holds once the payload is mapped, scaled
PAYLOAD_BASE == 16

(* ------------------------------ inputs -------------------------------- *)
\* Option<T>: None is the empty sequence, Some(v) is <<v>>
None == << >>
Some(v) == << v >>
IsSome(o) == Len(o) = 1
Unwrap(o) == o[1]

\* values of the c_bit_mask argument of _start_main
CBitMasks == {32, 64}
\* values of gdt::INITIAL_STACK.pointer (0x1000, 0x1008, 0x1FF0, 0x1FF4)
StackPointers == {4096, 4104, 8176, 8180}
\* BootInfo.shim.start as supplied by the host; the last one makes
\* shim.start + SHIM_VIRT_OFFSET overflow
ShimStarts == {32, AddrSpace - 8}
\* BootInfo.shim.end as supplied by the host
ShimEnds == {44}
\* outcome of a TryFrom address conversion of the boot_info pointer
Translations == {None, Some(48)}
\* frame-pointer values: the register at entry and the saved frame pointers
\* found in memory (aligned, unaligned with the return-address slot crossing
\* a page boundary, and one for which rbp + 8 overflows)
FpVals == {8, PageSize + 4, AddrSpace - 6}
\* saved return addresses found in memory
RipVals == {0, 1, 6, PAYLOAD_BASE + 32, SHIM_VIRT_OFFSET + 40, AddrSpace - 1}
\* page sets the page table may map at fault time
Pages == 0 .. ((AddrSpace - 1) \div PageSize)
MapChoices == {Pages, Pages \ {2}, Pages \ {0}}

\* spinning::RwLock state: a writer flag and a reader count
Unlocked == [writer |-> FALSE, readers |-> 0]
WriteHeld == [writer |-> TRUE, readers |-> 0]
ReadHeld == [writer |-> FALSE, readers |-> 1]
LockStates == {Unlocked, WriteHeld, ReadHeld}

VARIABLES
    pc,                       \* position of the single vCPU
    c_bit_mask,               \* argument of _start_main
    C_BIT_MASK,               \* static AtomicU64
    BOOT_INFO,                \* static RwLock<Option<BootInfo>>: the value
    BOOT_INFO_lock,           \*   and its lock
    SHIM_HOSTCALL_PHYS_ADDR,  \* static RwLock<Option<usize>>: the value
    SHIM_HOSTCALL_lock,       \*   and its lock
    SHIM_PAGETABLE_lock,      \* lock of paging::SHIM_PAGETABLE
    secretCopied,             \* SEV_SECRET.copy_from_bootinfo has completed
    sallyportUnencrypted,     \* switch_sallyport_to_unencrypted has completed
    PRINTING,                 \* print::is_printing_enabled()
    PAYLOAD_READY,            \* static AtomicBool
    PAYLOAD_VIRT_ADDR,        \* payload::PAYLOAD_VIRT_ADDR: the value
    ALREADY_IN_PANIC,         \* static AtomicBool of panic()
    switchArg,                \* sp passed to switch_shim_stack: None or Some(sp)
    stack,                    \* rsp loaded by switch_shim_stack: None or Some(sp)
    entryCalled,              \* the entry function (shim_main) was called
    writes,                   \* number of stores to each static value
    translations,             \* address conversions attempted so far
    panics,                   \* invocations of panic() so far
    faultAt,                  \* pc at which each invocation was raised
    nestedFaults,             \* faults raised by callees inside the diagnostic branch
    nOut,                     \* lines printed so far
    lastLine,                 \* the line printed last
    traceRuns,                \* calls of stack_trace so far
    exitCalls,                \* statuses passed to hostcall::shim_exit so far
    halt,                     \* how execution ended
    rbp,                      \* stack_trace: local rbp
    frame,                    \* stack_trace: loop iterations started
    shim_offset,              \* stack_trace: local shim_offset
    mem,                      \* memory words read so far: address -> value
    mapped,                   \* pages mapped by the active page table
    reads,                    \* start addresses of the 8-byte reads of the last iteration
    stopWhy,                  \* why the frame walk ended
    lastIter                  \* what the last iteration read: the return address, PAYLOAD_VIRT_ADDR

vars == << pc, c_bit_mask, C_BIT_MASK, BOOT_INFO, BOOT_INFO_lock,
           SHIM_HOSTCALL_PHYS_ADDR, SHIM_HOSTCALL_lock, SHIM_PAGETABLE_lock,
           secretCopied, sallyportUnencrypted, PRINTING, PAYLOAD_READY,
           PAYLOAD_VIRT_ADDR, ALREADY_IN_PANIC, switchArg, stack, entryCalled,
           writes, translations, panics, nestedFaults,
           faultAt, nOut, lastLine, traceRuns, exitCalls, halt, rbp, frame,
           shim_offset, mem, mapped, reads, stopWhy, lastIter >>

bootVars == << c_bit_mask, C_BIT_MASK, BOOT_INFO, BOOT_INFO_lock,
               SHIM_HOSTCALL_PHYS_ADDR, SHIM_HOSTCALL_lock, secretCopied,
               sallyportUnencrypted, PRINTING, switchArg, stack, entryCalled,
               writes, translations >>
runVars == << PAYLOAD_READY, PAYLOAD_VIRT_ADDR >>
outVars == << nOut, lastLine, traceRuns, exitCalls, halt >>
walkVars == << rbp, frame, shim_offset, mem, mapped, reads, stopWhy,
              lastIter >>

\* the bootstrap with the remap of the communication block moved up, before
\* the snapshot
BootOrderRemapFirst == << "store_cbit", "locate", "remap", "snapshot", "secret",
                          "enable", "switch" >>
\* the bootstrap with printing enabled before the remap
BootOrderPrintEarly == << "store_cbit", "locate", "snapshot", "secret", "enable",
                          "remap", "switch" >>
\* the bootstrap with the channel located before the mask is stored
BootOrderLocateFirst == << "locate", "store_cbit", "snapshot", "secret", "remap",
                           "enable", "switch" >>
\* the bootstrap with printing enabled before the snapshot
BootOrderPrintFirst == << "store_cbit", "locate", "enable", "snapshot", "secret",
                         "remap", "switch" >>
\* the statements of __impl_start, lines 111-132, in program order
BootOrder == << "store_cbit", "locate", "snapshot", "secret", "remap",
                "enable", "switch" >>
BootSteps == { BootOrder[i] : i \in 1 .. Len(BootOrder) }
\* the statement following p; the last one does not return: it calls the
\* entry function
After(p) ==
    LET i == CHOOSE j \in 1 .. Len(BootOrder) : BootOrder[j] = p
    IN IF i = Len(BootOrder) THEN "running" ELSE BootOrder[i + 1]
DiagSteps == {"st_begin", "st_pt_recover", "st_bi_recover", "st_bi_read",
              "st_pt_read", "st_walk", "st_ret", "exit"}

\* nothing read
NoIter == [rip |-> None, pva |-> FALSE]
NoLine == [inv |-> 0, tag |-> "none", val |-> 0, ret |-> 0]

Init ==
    /\ pc = BootOrder[1]
    /\ c_bit_mask \in CBitMasks
    /\ C_BIT_MASK = 0
    /\ BOOT_INFO = None
    /\ BOOT_INFO_lock = Unlocked
    /\ SHIM_HOSTCALL_PHYS_ADDR = None
    /\ SHIM_HOSTCALL_lock = Unlocked
    /\ SHIM_PAGETABLE_lock = Unlocked
    /\ secretCopied = FALSE
    /\ sallyportUnencrypted = FALSE
    /\ PRINTING = FALSE
    /\ PAYLOAD_READY = FALSE
    /\ PAYLOAD_VIRT_ADDR = 0
    /\ ALREADY_IN_PANIC = FALSE
    /\ switchArg = None
    /\ stack = None
    /\ entryCalled = FALSE
    /\ writes = [C_BIT_MASK |-> 0, BOOT_INFO |-> 0, SHIM_HOSTCALL_PHYS_ADDR |-> 0]
    /\ translations = 0
    /\ panics = 0
    /\ nestedFaults = 0
    /\ faultAt = << >>
    /\ nOut = 0
    /\ lastLine = NoLine
    /\ traceRuns = 0
    /\ exitCalls = << >>
    /\ halt = "none"
    /\ rbp = 0
    /\ frame = 0
    /\ shim_offset = 0
    /\ mem = << >>
    /\ mapped = {}
    /\ reads = {}
    /\ stopWhy = "none"
    /\ lastIter = NoIter

(* --------------------------- raising a panic -------------------------- *)
\* control enters panic(); nothing is unwound, so locks stay as they are
RaisePanic ==
    /\ pc' = "panic"
    /\ faultAt' = Append(faultAt, pc)

(* ------------------------ _start_main (bootstrap) --------------------- *)
\* C_BIT_MASK.store(c_bit_mask, Ordering::Relaxed)
StoreCBitMask ==
    /\ pc = "store_cbit"
    /\ C_BIT_MASK' = c_bit_mask
    /\ writes' = [writes EXCEPT !.C_BIT_MASK = @ + 1]
    /\ pc' = After("store_cbit")
    /\ UNCHANGED << c_bit_mask, BOOT_INFO, BOOT_INFO_lock,
                    SHIM_HOSTCALL_PHYS_ADDR, SHIM_HOSTCALL_lock,
                    SHIM_PAGETABLE_lock, secretCopied, sallyportUnencrypted,
                    PRINTING, ALREADY_IN_PANIC, switchArg, stack, entryCalled,
                    translations, panics, nestedFaults, faultAt >>
    /\ UNCHANGED runVars
    /\ UNCHANGED outVars
    /\ UNCHANGED walkVars

\* SHIM_HOSTCALL_PHYS_ADDR.write().replace({ ... try_from(..).unwrap() ... }):
\* the write guard is taken first, then the two conversions run; a failed
\* unwrap panics with the guard still held
LocateChannel ==
    /\ pc = "locate"
    /\ \E shim_virt \in Translations :
         IF ~IsSome(shim_virt)
         THEN /\ translations' = translations + 1
              /\ SHIM_HOSTCALL_lock' = WriteHeld
              /\ RaisePanic
              /\ UNCHANGED << SHIM_HOSTCALL_PHYS_ADDR, writes >>
         ELSE \E phys \in Translations :
                /\ translations' = translations + 2
                /\ IF ~IsSome(phys)
                   THEN /\ SHIM_HOSTCALL_lock' = WriteHeld
                        /\ RaisePanic
                        /\ UNCHANGED << SHIM_HOSTCALL_PHYS_ADDR, writes >>
                   ELSE /\ SHIM_HOSTCALL_PHYS_ADDR' = Some(Unwrap(phys))
                        /\ writes' = [writes EXCEPT !.SHIM_HOSTCALL_PHYS_ADDR = @ + 1]
                        /\ SHIM_HOSTCALL_lock' = Unlocked
                        /\ pc' = After("locate")
                        /\ UNCHANGED faultAt
    /\ UNCHANGED << c_bit_mask, C_BIT_MASK, BOOT_INFO, BOOT_INFO_lock,
                    SHIM_PAGETABLE_lock, secretCopied, sallyportUnencrypted,
                    PRINTING, ALREADY_IN_PANIC, switchArg, stack,
                    entryCalled, panics, nestedFaults >>
    /\ UNCHANGED runVars
    /\ UNCHANGED outVars
    /\ UNCHANGED walkVars

\* BOOT_INFO.write().replace(boot_info.read())
SnapshotBootInfo ==
    /\ pc = "snapshot"
    /\ \E s \in ShimStarts, e \in ShimEnds :
         BOOT_INFO' = Some([shim_start |-> s, shim_end |-> e])
    /\ writes' = [writes EXCEPT !.BOOT_INFO = @ + 1]
    /\ BOOT_INFO_lock' = Unlocked
    /\ pc' = After("snapshot")
    /\ UNCHANGED << c_bit_mask, C_BIT_MASK, SHIM_HOSTCALL_PHYS_ADDR,
                    SHIM_HOSTCALL_lock, SHIM_PAGETABLE_lock, secretCopied,
                    sallyportUnencrypted, PRINTING, ALREADY_IN_PANIC,
                    switchArg, stack, entryCalled, translations, panics, nestedFaults,
                    faultAt >>
    /\ UNCHANGED runVars
    /\ UNCHANGED outVars
    /\ UNCHANGED walkVars

\* SEV_SECRET.write().copy_from_bootinfo(boot_info)
IngestSecret ==
    /\ pc = "secret"
    /\ secretCopied' = TRUE
    /\ pc' = After("secret")
    /\ UNCHANGED << c_bit_mask, C_BIT_MASK, BOOT_INFO, BOOT_INFO_lock,
                    SHIM_HOSTCALL_PHYS_ADDR, SHIM_HOSTCALL_lock,
                    SHIM_PAGETABLE_lock, sallyportUnencrypted, PRINTING,
                    ALREADY_IN_PANIC, switchArg, stack, entryCalled, writes,
                    translations, panics, nestedFaults, faultAt >>
    /\ UNCHANGED runVars
    /\ UNCHANGED outVars
    /\ UNCHANGED walkVars

\* switch_sallyport_to_unencrypted(c_bit_mask)
SwitchSallyport ==
    /\ pc = "remap"
    /\ sallyportUnencrypted' = TRUE
    /\ pc' = After("remap")
    /\ UNCHANGED << c_bit_mask, C_BIT_MASK, BOOT_INFO, BOOT_INFO_lock,
                    SHIM_HOSTCALL_PHYS_ADDR, SHIM_HOSTCALL_lock,
                    SHIM_PAGETABLE_lock, secretCopied, PRINTING,
                    ALREADY_IN_PANIC, switchArg, stack, entryCalled, writes,
                    translations, panics, nestedFaults, faultAt >>
    /\ UNCHANGED runVars
    /\ UNCHANGED outVars
    /\ UNCHANGED walkVars

\* enable_printing()
EnablePrinting ==
    /\ pc = "enable"
    /\ PRINTING' = TRUE
    /\ pc' = After("enable")
    /\ UNCHANGED << c_bit_mask, C_BIT_MASK, BOOT_INFO, BOOT_INFO_lock,
                    SHIM_HOSTCALL_PHYS_ADDR, SHIM_HOSTCALL_lock,
                    SHIM_PAGETABLE_lock, secretCopied, sallyportUnencrypted,
                    ALREADY_IN_PANIC, switchArg, stack, entryCalled, writes,
                    translations, panics, nestedFaults, faultAt >>
    /\ UNCHANGED runVars
    /\ UNCHANGED outVars
    /\ UNCHANGED walkVars

\* the assertion with a weaker alignment
StackAligned8(sp) == sp % 8 = 0
\* the assertion with a stronger alignment
StackAligned32(sp) == sp % 32 = 0
\* assert_eq!(sp % 16, 0)
StackAligned(sp) == sp % StackAlign = 0

\* switch_shim_stack(f, gdt::INITIAL_STACK.pointer.as_u64()): the assertion,
\* then `mov rsp, sp; sub rsp, 8; push rbp; call ip`
SwitchShimStack ==
    /\ pc = "switch"
    /\ \E sp \in StackPointers :
         /\ switchArg' = Some(sp)
         /\ IF StackAligned(sp)
            THEN /\ stack' = Some(sp)
                 /\ entryCalled' = TRUE
                 /\ pc' = After("switch")
                 /\ UNCHANGED faultAt
            ELSE /\ RaisePanic
                 /\ UNCHANGED << stack, entryCalled >>
    /\ UNCHANGED << c_bit_mask, C_BIT_MASK, BOOT_INFO, BOOT_INFO_lock,
                    SHIM_HOSTCALL_PHYS_ADDR, SHIM_HOSTCALL_lock,
                    SHIM_PAGETABLE_lock, secretCopied, sallyportUnencrypted,
                    PRINTING, ALREADY_IN_PANIC, writes,
                    translations, panics, nestedFaults >>
    /\ UNCHANGED runVars
    /\ UNCHANGED outVars
    /\ UNCHANGED walkVars

\* a fault (failed assertion or CPU exception in a callee) raised while the
\* bootstrap is at one of its steps, before the step has taken effect
BootFault ==
    /\ pc \in BootSteps
    /\ RaisePanic
    /\ UNCHANGED << SHIM_PAGETABLE_lock, ALREADY_IN_PANIC, panics, nestedFaults >>
    /\ UNCHANGED runVars
    /\ UNCHANGED bootVars
    /\ UNCHANGED outVars
    /\ UNCHANGED walkVars

(* ------------------------- shim_main and after ------------------------ *)
\* payload::execute_payload() publishes the payload mapping: PAYLOAD_VIRT_ADDR
\* is written and its guard released before PAYLOAD_READY is set, so the
\* PAYLOAD_VIRT_ADDR.read() of stack_trace finds no writer
SetPayloadReady ==
    /\ pc = "running"
    /\ ~PAYLOAD_READY
    /\ PAYLOAD_VIRT_ADDR' = PAYLOAD_BASE
    /\ PAYLOAD_READY' = TRUE
    /\ UNCHANGED << pc, SHIM_PAGETABLE_lock, ALREADY_IN_PANIC, panics, nestedFaults,
                    faultAt >>
    /\ UNCHANGED bootVars
    /\ UNCHANGED outVars
    /\ UNCHANGED walkVars

\* a panic raised by the running shim; the interrupted code may hold the
\* BOOT_INFO lock or the SHIM_PAGETABLE lock
RunFault ==
    /\ pc = "running"
    /\ \E bl \in LockStates, pl \in LockStates :
         /\ BOOT_INFO_lock' = bl
         /\ SHIM_PAGETABLE_lock' = pl
    /\ RaisePanic
    /\ UNCHANGED << c_bit_mask, C_BIT_MASK, BOOT_INFO, SHIM_HOSTCALL_PHYS_ADDR,
                    SHIM_HOSTCALL_lock, secretCopied, sallyportUnencrypted,
                    PRINTING, ALREADY_IN_PANIC, switchArg, stack,
                    entryCalled, writes, translations, panics, nestedFaults >>
    /\ UNCHANGED runVars
    /\ UNCHANGED outVars
    /\ UNCHANGED walkVars

(* ------------------------------- panic -------------------------------- *)
\* the condition without the is_printing_enabled() test
EntersDiagnosticsNoPrintTest == ~ALREADY_IN_PANIC
\* the condition without the compare_exchange
EntersDiagnosticsNoGuard == PRINTING
\* is_printing_enabled() && ALREADY_IN_PANIC.compare_exchange(false, true).is_ok()
EntersDiagnostics == PRINTING /\ ~ALREADY_IN_PANIC

\* a panic() that restarts the bootstrap instead of provoking the triple fault
PanicRetry ==
    /\ pc = "panic"
    /\ panics' = panics + 1
    /\ IF PRINTING /\ ~ALREADY_IN_PANIC
       THEN /\ ALREADY_IN_PANIC' = TRUE
            /\ nOut' = nOut + 1
            /\ lastLine' = [inv |-> panics + 1, tag |-> "info", val |-> 0, ret |-> 0]
            /\ pc' = "st_begin"
       ELSE /\ pc' = "store_cbit"
            /\ UNCHANGED << ALREADY_IN_PANIC, nOut, lastLine >>
    /\ UNCHANGED << SHIM_PAGETABLE_lock, faultAt, nestedFaults, traceRuns,
                    exitCalls, halt >>
    /\ UNCHANGED bootVars
    /\ UNCHANGED runVars
    /\ UNCHANGED walkVars

\* a panic() that returns to the faulting statement instead of provoking the
\* triple fault
PanicResume ==
    /\ pc = "panic"
    /\ panics' = panics + 1
    /\ IF PRINTING /\ ~ALREADY_IN_PANIC
       THEN /\ ALREADY_IN_PANIC' = TRUE
            /\ nOut' = nOut + 1
            /\ lastLine' = [inv |-> panics + 1, tag |-> "info", val |-> 0, ret |-> 0]
            /\ pc' = "st_begin"
       ELSE /\ pc' = faultAt[Len(faultAt)]
            /\ UNCHANGED << ALREADY_IN_PANIC, nOut, lastLine >>
    /\ UNCHANGED << SHIM_PAGETABLE_lock, faultAt, nestedFaults, traceRuns,
                    exitCalls, halt >>
    /\ UNCHANGED bootVars
    /\ UNCHANGED runVars
    /\ UNCHANGED walkVars

\* panic(): either the diagnostic branch is entered and the panic message is
\* printed, or control goes to _enarx_asm_triple_fault()
Panic ==
    /\ pc = "panic"
    /\ panics' = panics + 1
    /\ IF EntersDiagnostics
       THEN /\ ALREADY_IN_PANIC' = TRUE
            /\ nOut' = nOut + 1
            /\ lastLine' = [inv |-> panics + 1, tag |-> "info", val |-> 0, ret |-> 0]
            /\ pc' = "st_begin"
            /\ UNCHANGED halt
       ELSE /\ halt' = "triple_fault"
            /\ pc' = "halted"
            /\ UNCHANGED << ALREADY_IN_PANIC, nOut, lastLine >>
    /\ UNCHANGED << SHIM_PAGETABLE_lock, faultAt, nestedFaults, traceRuns,
                    exitCalls >>
    /\ UNCHANGED runVars
    /\ UNCHANGED bootVars
    /\ UNCHANGED walkVars

\* hostcall::shim_exit(255)
ShimExit ==
    /\ pc = "exit"
    /\ exitCalls' = Append(exitCalls, ExitStatus)
    /\ halt' = "shim_exit"
    /\ pc' = "halted"
    /\ UNCHANGED << SHIM_PAGETABLE_lock, ALREADY_IN_PANIC, panics, nestedFaults,
                    faultAt, nOut, lastLine, traceRuns >>
    /\ UNCHANGED runVars
    /\ UNCHANGED bootVars
    /\ UNCHANGED walkVars

\* a fault raised inside the diagnostic branch (by _eprint, by a memory read
\* of stack_trace or by shim_exit): panic() is entered again
NestedFault ==
    /\ pc \in DiagSteps
    /\ RaisePanic
    /\ nestedFaults' = nestedFaults + 1
    /\ UNCHANGED << SHIM_PAGETABLE_lock, ALREADY_IN_PANIC, panics >>
    /\ UNCHANGED runVars
    /\ UNCHANGED bootVars
    /\ UNCHANGED outVars
    /\ UNCHANGED walkVars

(* ----------------------------- stack_trace ---------------------------- *)
UsizeMax == AddrSpace - 1
\* usize::checked_add / usize::checked_sub
CheckedAdd(a, b) == IF a + b <= UsizeMax THEN Some(a + b) ELSE None
CheckedSub(a, b) == IF a >= b THEN Some(a - b) ELSE None

\* a try_read() that fails on readers instead of on a writer
TryReadFailsOnReaders(l) == l.readers > 0
\* a force_unlock_write() that leaves the lock as it is
ForceUnlockWriteNoop(l) == l
\* RwLock::try_read().is_none(), RwLock::force_unlock_write(), RwLock::read()
TryReadFails(l) == l.writer
ForceUnlockWrite(l) == [l EXCEPT !.writer = FALSE]
CanRead(l) == ~l.writer
AddReader(l) == [l EXCEPT !.readers = @ + 1]
DropReader(l) == [l EXCEPT !.readers = @ - 1]

\* active_table.translate_addr(VirtAddr::new(a)).is_some()
PageOf(a) == a \div PageSize
IsMapped(a) == PageOf(a) \in mapped

\* the bytes an 8-byte read at address a touches
BytesOf(a) == { (a + i) % AddrSpace : i \in 0 .. (WordSize - 1) }

\* the word at address a: memory does not change during the walk, so a word
\* read before is read again with the same value
WordAt(a, vals) == IF a \in DOMAIN mem THEN {mem[a]} ELSE vals
Remember(m, a, v) == [x \in (DOMAIN m) \cup {a} |-> IF x = a THEN v ELSE m[x]]

\* the range written 0..=64
InRangeInclusive(f) == f <= MaxFrames
\* `for _frame in 0..64`
InRange(f) == f < MaxFrames

\* let mut rbp; asm!("mov {}, rbp"); print::_eprint("TRACE:\n")
StBegin ==
    /\ pc = "st_begin"
    /\ traceRuns' = traceRuns + 1
    /\ rbp' \in FpVals
    /\ nOut' = nOut + 1
    /\ lastLine' = [inv |-> panics, tag |-> "TRACE", val |-> 0, ret |-> 0]
    /\ pc' = "st_pt_recover"
    /\ UNCHANGED << SHIM_PAGETABLE_lock, ALREADY_IN_PANIC, panics, nestedFaults, faultAt,
                    exitCalls, halt, frame, shim_offset, mem, mapped, reads,
                    stopWhy, lastIter >>
    /\ UNCHANGED bootVars
    /\ UNCHANGED runVars

\* if SHIM_PAGETABLE.try_read().is_none() { SHIM_PAGETABLE.force_unlock_write() }
StRecoverPagetable ==
    /\ pc = "st_pt_recover"
    /\ SHIM_PAGETABLE_lock' = IF TryReadFails(SHIM_PAGETABLE_lock)
                              THEN ForceUnlockWrite(SHIM_PAGETABLE_lock)
                              ELSE SHIM_PAGETABLE_lock
    /\ pc' = "st_bi_recover"
    /\ UNCHANGED << ALREADY_IN_PANIC, panics, nestedFaults, faultAt >>
    /\ UNCHANGED bootVars
    /\ UNCHANGED runVars
    /\ UNCHANGED outVars
    /\ UNCHANGED walkVars

\* if BOOT_INFO.try_read().is_none() { BOOT_INFO.force_unlock_write(); }
StRecoverBootInfo ==
    /\ pc = "st_bi_recover"
    /\ BOOT_INFO_lock' = IF TryReadFails(BOOT_INFO_lock)
                         THEN ForceUnlockWrite(BOOT_INFO_lock)
                         ELSE BOOT_INFO_lock
    /\ pc' = "st_bi_read"
    /\ UNCHANGED << c_bit_mask, C_BIT_MASK, BOOT_INFO,
                    SHIM_HOSTCALL_PHYS_ADDR, SHIM_HOSTCALL_lock,
                    SHIM_PAGETABLE_lock, secretCopied, sallyportUnencrypted,
                    PRINTING, ALREADY_IN_PANIC, switchArg, stack, entryCalled,
                    writes, translations, panics, nestedFaults, faultAt >>
    /\ UNCHANGED runVars
    /\ UNCHANGED outVars
    /\ UNCHANGED walkVars

\* let bootinfo = BOOT_INFO.read();
\* let shim_start = bootinfo.unwrap().shim.start;
\* let shim_offset = shim_start.checked_add(SHIM_VIRT_OFFSET as _).unwrap();
StReadBootInfo ==
    /\ pc = "st_bi_read"
    /\ CanRead(BOOT_INFO_lock)
    /\ BOOT_INFO_lock' = AddReader(BOOT_INFO_lock)
    /\ IF ~IsSome(BOOT_INFO)
       THEN /\ RaisePanic
            /\ UNCHANGED shim_offset
       ELSE LET sum == CheckedAdd(Unwrap(BOOT_INFO).shim_start, SHIM_VIRT_OFFSET) IN
            IF ~IsSome(sum)
            THEN /\ RaisePanic
                 /\ UNCHANGED shim_offset
            ELSE /\ shim_offset' = Unwrap(sum)
                 /\ pc' = "st_pt_read"
                 /\ UNCHANGED faultAt
    /\ UNCHANGED << c_bit_mask, C_BIT_MASK, BOOT_INFO,
                    SHIM_HOSTCALL_PHYS_ADDR, SHIM_HOSTCALL_lock,
                    SHIM_PAGETABLE_lock, secretCopied, sallyportUnencrypted,
                    PRINTING, ALREADY_IN_PANIC, switchArg, stack, entryCalled,
                    writes, translations, panics, nestedFaults, rbp, frame, mem, mapped,
                    reads, stopWhy, lastIter >>
    /\ UNCHANGED runVars
    /\ UNCHANGED outVars

\* let active_table = SHIM_PAGETABLE.read(): the table seen is the one active
\* at fault time
StReadPagetable ==
    /\ pc = "st_pt_read"
    /\ CanRead(SHIM_PAGETABLE_lock)
    /\ SHIM_PAGETABLE_lock' = AddReader(SHIM_PAGETABLE_lock)
    /\ mapped' \in MapChoices
    /\ pc' = "st_walk"
    /\ UNCHANGED << ALREADY_IN_PANIC, panics, nestedFaults, faultAt, rbp, frame, shim_offset,
                    mem, reads, stopWhy, lastIter >>
    /\ UNCHANGED bootVars
    /\ UNCHANGED runVars
    /\ UNCHANGED outVars

\* the return address resolved as it is, without the step back
RipOfNoStep(ripv) == CheckedSub(ripv, 0)
\* `if let Some(rip) = rip.checked_sub(1)`: the address resolved is the one
\* before the saved return address
RipOf(ripv) == CheckedSub(ripv, 1)
\* rip.checked_sub(shim_offset)
ShimRel(rip) == CheckedSub(rip, shim_offset)
\* the payload branch taken without the PAYLOAD_READY test
PayloadActiveAlways == TRUE
\* PAYLOAD_READY.load(Ordering::Relaxed)
PayloadActive == PAYLOAD_READY
\* rip.checked_sub(PAYLOAD_VIRT_ADDR.read().as_u64() as _)
PayloadRel(rip) == CheckedSub(rip, PAYLOAD_VIRT_ADDR)

\* one iteration of the loop body for frame pointer fp, where ripv is the word
\* at fp + 8 and fpv the word at fp: whether the loop is left, the line
\* printed, the next rbp, the addresses read and whether PAYLOAD_VIRT_ADDR
\* was read
WalkBreak(fp, why, rd) ==
    [stop |-> TRUE, why |-> why, tag |-> "none", val |-> 0, ret |-> 0,
     next |-> fp, reads |-> rd, pva |-> FALSE]
WalkPrint(tag, val, ret, fpv, rd) ==
    [stop |-> FALSE, why |-> "none", tag |-> tag, val |-> val, ret |-> ret,
     next |-> fpv, reads |-> rd, pva |-> FALSE]
WalkStep(fp, ripv, fpv) ==
    LET rip_rbp == CheckedAdd(fp, WordSize) IN
    IF ~IsSome(rip_rbp) THEN WalkBreak(fp, "rbp_overflow", {})
    ELSE IF ~(IsMapped(fp) /\ IsMapped(Unwrap(rip_rbp)))
    THEN WalkBreak(fp, "not_mapped", {})
    ELSE LET rip == RipOf(ripv)
             slot == {Unwrap(rip_rbp)} IN
         IF ~IsSome(rip) THEN WalkBreak(fp, "rip_zero", slot)
         ELSE IF Unwrap(rip) = 0 THEN WalkBreak(fp, "rip_zero", slot)
         ELSE LET shimRel == ShimRel(Unwrap(rip)) IN
              IF IsSome(shimRel)
              THEN WalkPrint("shim", Unwrap(shimRel), ripv, fpv, slot \cup {fp})
              ELSE IF PayloadActive
              THEN LET payRel == PayloadRel(Unwrap(rip)) IN
                   IF IsSome(payRel)
                   THEN [WalkPrint("P", Unwrap(payRel), ripv, fpv, slot \cup {fp})
                            EXCEPT !.pva = TRUE]
                   ELSE [WalkBreak(fp, "no_range", slot) EXCEPT !.pva = TRUE]
              ELSE [stop |-> FALSE, why |-> "none", tag |-> "none", val |-> 0,
                    ret |-> ripv, next |-> fp, reads |-> slot, pva |-> FALSE]

\* the loop body, lines 199-235, run once
StWalk ==
    /\ pc = "st_walk"
    /\ InRange(frame)
    /\ frame' = frame + 1
    /\ \E ripv \in WordAt((rbp + WordSize) % AddrSpace, RipVals),
          fpv \in WordAt(rbp, FpVals) :
         LET r == WalkStep(rbp, ripv, fpv)
             m1 == IF (rbp + WordSize) \in r.reads
                   THEN Remember(mem, rbp + WordSize, ripv) ELSE mem
             m2 == IF rbp \in r.reads THEN Remember(m1, rbp, fpv) ELSE m1
         IN /\ rbp' = r.next
            /\ reads' = r.reads
            /\ mem' = m2
            /\ stopWhy' = r.why
            /\ lastIter' = [rip |-> IF (rbp + WordSize) \in r.reads
                                     THEN Some(ripv) ELSE None,
                             pva |-> r.pva]
            /\ pc' = IF r.stop THEN "st_ret" ELSE "st_walk"
            /\ IF r.tag = "none"
               THEN UNCHANGED << nOut, lastLine >>
               ELSE /\ nOut' = nOut + 1
                    /\ lastLine' = [inv |-> panics, tag |-> r.tag, val |-> r.val,
                                    ret |-> r.ret]
    /\ UNCHANGED << SHIM_PAGETABLE_lock, ALREADY_IN_PANIC, panics, nestedFaults, faultAt,
                    traceRuns, exitCalls, halt, shim_offset, mapped >>
    /\ UNCHANGED bootVars
    /\ UNCHANGED runVars

\* the range 0..64 is exhausted
StWalkEnd ==
    /\ pc = "st_walk"
    /\ ~InRange(frame)
    /\ stopWhy' = "bound"
    /\ pc' = "st_ret"
    /\ UNCHANGED << SHIM_PAGETABLE_lock, ALREADY_IN_PANIC, panics, nestedFaults, faultAt, rbp,
                    frame, shim_offset, mem, mapped, reads, lastIter >>
    /\ UNCHANGED bootVars
    /\ UNCHANGED runVars
    /\ UNCHANGED outVars

\* stack_trace returns: active_table and bootinfo are dropped
StReturn ==
    /\ pc = "st_ret"
    /\ SHIM_PAGETABLE_lock' = DropReader(SHIM_PAGETABLE_lock)
    /\ BOOT_INFO_lock' = DropReader(BOOT_INFO_lock)
    /\ pc' = "exit"
    /\ UNCHANGED << c_bit_mask, C_BIT_MASK, BOOT_INFO,
                    SHIM_HOSTCALL_PHYS_ADDR, SHIM_HOSTCALL_lock, secretCopied,
                    sallyportUnencrypted, PRINTING, ALREADY_IN_PANIC,
                    switchArg, stack, entryCalled, writes, translations,
                    panics, nestedFaults, faultAt >>
    /\ UNCHANGED runVars
    /\ UNCHANGED outVars
    /\ UNCHANGED walkVars

(* --------------------------- specification ---------------------------- *)
Next ==
    \/ StoreCBitMask
    \/ LocateChannel
    \/ SnapshotBootInfo
    \/ IngestSecret
    \/ SwitchSallyport
    \/ EnablePrinting
    \/ SwitchShimStack
    \/ BootFault
    \/ SetPayloadReady
    \/ RunFault
    \/ Panic
    \/ StBegin
    \/ StRecoverPagetable
    \/ StRecoverBootInfo
    \/ StReadBootInfo
    \/ StReadPagetable
    \/ StWalk
    \/ StWalkEnd
    \/ StReturn
    \/ ShimExit
    \/ NestedFault

Spec == Init /\ [][Next]_vars

\* the steps the program takes by itself; BootFault, RunFault and NestedFault
\* are faults that may or may not be raised
ProgramStep ==
    \/ StoreCBitMask
    \/ LocateChannel
    \/ SnapshotBootInfo
    \/ IngestSecret
    \/ SwitchSallyport
    \/ EnablePrinting
    \/ SwitchShimStack
    \/ SetPayloadReady
    \/ Panic
    \/ StBegin
    \/ StRecoverPagetable
    \/ StRecoverBootInfo
    \/ StReadBootInfo
    \/ StReadPagetable
    \/ StWalk
    \/ StWalkEnd
    \/ StReturn
    \/ ShimExit

\* the vCPU keeps executing the program's instructions until it is halted
FairSpec == Spec /\ WF_vars(ProgramStep)

(* ------------------------------ properties ---------------------------- *)
\* C1: the communication block is in its unencrypted-mapped state only when
\* the BOOT_INFO snapshot and the SEV_SECRET copy have both completed,
\* whatever faults were raised on the way
C1_RemapAfterSnapshotAndSecret ==
    sallyportUnencrypted => (IsSome(BOOT_INFO) /\ secretCopied)
C1_Witness ==
    /\ sallyportUnencrypted
    /\ writes.BOOT_INFO = 1
    /\ Len(faultAt) > 0

\* C2: whenever printing is enabled, BOOT_INFO holds a snapshot and the remap
\* of the communication block has completed
C2_PrintingAfterSnapshotAndRemap ==
    PRINTING => (IsSome(BOOT_INFO) /\ sallyportUnencrypted)
C2_Witness ==
    PRINTING /\ pc = "switch"

\* C3: a panic raised before enable_printing() prints nothing, runs no stack
\* trace, makes no shim_exit call and ends in the triple fault
C3_SilentResetBeforePrinting ==
    ~PRINTING =>
        /\ nOut = 0
        /\ traceRuns = 0
        /\ exitCalls = << >>
        /\ halt # "shim_exit"
        /\ (panics > 0 => (pc = "halted" /\ halt = "triple_fault"))
C3_Witness ==
    /\ ~PRINTING
    /\ panics = 1
    /\ halt = "triple_fault"
    /\ faultAt[1] = "remap"

\* C4: C_BIT_MASK, BOOT_INFO and SHIM_HOSTCALL_PHYS_ADDR are each stored at most
\* once, and no step of panic() or stack_trace stores to any of them
C4_SingleWriter ==
    /\ [](\A k \in DOMAIN writes : writes[k] <= 1)
    /\ [][(pc \in DiagSteps \cup {"panic"}) =>
            UNCHANGED << C_BIT_MASK, BOOT_INFO, SHIM_HOSTCALL_PHYS_ADDR, writes >>]_vars
C4_Witness ==
    /\ \A k \in DOMAIN writes : writes[k] = 1
    /\ panics = 2

\* C5: C_BIT_MASK has been stored when the first address conversion is
\* attempted, and once stored it keeps its value
C5_CBitStoredBeforeTranslation ==
    /\ [](translations > 0 => (writes.C_BIT_MASK = 1 /\ C_BIT_MASK = c_bit_mask))
    /\ [][writes.C_BIT_MASK > 0 => C_BIT_MASK' = C_BIT_MASK]_vars
C5_Witness ==
    translations = 2 /\ C_BIT_MASK = 64 /\ pc = "halted"

\* C6: a panic() entered while ALREADY_IN_PANIC is set prints nothing, runs no
\* stack trace, makes no shim_exit call and goes to the triple fault
C6_ReentrantPanicSilent ==
    [][(pc = "panic" /\ ALREADY_IN_PANIC) =>
        /\ nOut' = nOut
        /\ lastLine' = lastLine
        /\ traceRuns' = traceRuns
        /\ exitCalls' = exitCalls
        /\ halt' = "triple_fault"
        /\ pc' = "halted"]_vars
C6_Witness ==
    /\ panics = 2
    /\ ALREADY_IN_PANIC
    /\ halt = "triple_fault"
    /\ faultAt[2] = "st_walk"

C8_ReadsOnlyMapped ==
    \A a \in reads : \A b \in BytesOf(a) : (b \div PageSize) \in mapped

\* C9: switch_shim_stack called with sp not a multiple of 16 panics with rsp
\* not loaded and the entry function not called; called with a multiple of
\* 16 it loads rsp and calls the entry function
C9_AlignmentDecidesTransfer ==
    IsSome(switchArg) =>
        IF switchArg[1] % 16 # 0
        THEN /\ stack = None
             /\ ~entryCalled
             /\ faultAt # << >>
             /\ faultAt[1] = "switch"
        ELSE /\ stack = switchArg
             /\ entryCalled
C9_Witness ==
    switchArg = Some(8180) /\ pc = "halted"

\* C10 as stated: sp = 0x1000 is rejected without a control transfer and
\* sp = 0x1FF0 is accepted
C10_AsStated ==
    /\ switchArg = Some(4096) => (stack = None /\ ~entryCalled)
    /\ switchArg = Some(8176) => (stack = Some(8176) /\ entryCalled)
\* C10 amended: sp = 0x1000 and sp = 0x1FF0 are both accepted and control
\* transfers to the entry function
C10_BothAccepted ==
    /\ switchArg = Some(4096) => (stack = Some(4096) /\ entryCalled)
    /\ switchArg = Some(8176) => (stack = Some(8176) /\ entryCalled)
C10_Witness ==
    switchArg = Some(4096) /\ entryCalled /\ pc = "running"

\* the steps of stack_trace
TraceSteps == DiagSteps \ {"exit"}
\* the first panic was raised by a step of the bootstrap
BootFailed == Len(faultAt) > 0 /\ faultAt[1] \in BootSteps

C13_NoContinuationAfterBootFailure ==
    /\ [](BootFailed => (~entryCalled /\ pc \notin (BootSteps \cup {"running"})))
    /\ [][BootFailed =>
            (UNCHANGED << writes, translations, secretCopied,
                          sallyportUnencrypted, PRINTING, stack, entryCalled >>)]_vars
C13_Witness ==
    /\ BootFailed
    /\ faultAt[1] = "locate"
    /\ pc = "halted"

\* C14: an iteration of the frame walk that finds rbp + 8 overflowing, the
\* frame unmapped, the return address zero or in neither range, is the last
\* one
C14_WalkStopsAtAnomaly ==
    [][(/\ frame' = frame + 1
        /\ \/ ~IsSome(lastIter'.rip)
           \/ /\ IsSome(lastIter'.rip)
              /\ \/ lastIter'.rip[1] <= 1
                 \/ /\ lastIter'.rip[1] - 1 < shim_offset
                    /\ (~PAYLOAD_READY \/ lastIter'.rip[1] - 1 < PAYLOAD_VIRT_ADDR))
       => pc' = "st_ret"]_vars

\* C15: a panic() that entered the diagnostic branch, with no fault raised by
\* a callee on the way, ends with shim_exit(255)
C15_DiagnosticsEndInShimExit ==
    (pc = "halted" /\ ALREADY_IN_PANIC /\ nestedFaults = 0) =>
        (halt = "shim_exit" /\ exitCalls = << 255 >>)

\* C16: no step of stack_trace raises a panic by itself
C16_TraceRaisesNoPanic ==
    [][(pc \in TraceSteps /\ nestedFaults' = nestedFaults) => pc' # "panic"]_vars

\* C17: whatever holder the fault interrupted, BOOT_INFO.read() and
\* SHIM_PAGETABLE.read() are reached with no writer on the lock, and the
\* walk runs with both read locks taken
C17_ReadsNeverBlocked ==
    /\ pc = "st_bi_read" => ~BOOT_INFO_lock.writer
    /\ pc = "st_pt_read" => ~SHIM_PAGETABLE_lock.writer
    /\ pc = "st_walk" =>
        /\ BOOT_INFO_lock.readers >= 1 /\ ~BOOT_INFO_lock.writer
        /\ SHIM_PAGETABLE_lock.readers >= 1 /\ ~SHIM_PAGETABLE_lock.writer
C17_Witness ==
    /\ pc = "st_walk"
    /\ BOOT_INFO_lock.readers = 2
    /\ SHIM_PAGETABLE_lock.readers = 2

\* C18: a line printed as shim-relative is for an address inside the loaded
\* shim: at or above shim.start + SHIM_VIRT_OFFSET and below
\* shim.end + SHIM_VIRT_OFFSET
C18_ShimLineWithinShim ==
    lastLine.tag = "shim" =>
        /\ lastLine.ret - 1 >= Unwrap(BOOT_INFO).shim_start + SHIM_VIRT_OFFSET
        /\ lastLine.ret - 1 - SHIM_VIRT_OFFSET < Unwrap(BOOT_INFO).shim_end

\* C19: a 'P' line is printed and PAYLOAD_VIRT_ADDR is read only with
\* PAYLOAD_READY set
C19_PayloadOnlyWhenReady ==
    (lastLine.tag = "P" \/ lastIter.pva) => PAYLOAD_READY
C19_Witness ==
    /\ ~PAYLOAD_READY
    /\ lastIter.rip = Some(PAYLOAD_BASE + 32)
    /\ ~lastIter.pva
    /\ frame > 1

\* C20: BOOT_INFO is Some whenever stack_trace is about to run or has run, so
\* bootinfo.unwrap() finds a value
C20_BootInfoPresentInTrace ==
    (pc \in TraceSteps \/ traceRuns > 0) => IsSome(BOOT_INFO)
C20_Witness ==
    /\ pc = "st_pt_read"
    /\ IsSome(BOOT_INFO)
    /\ shim_offset = Unwrap(BOOT_INFO).shim_start + SHIM_VIRT_OFFSET

====
